---- MODULE Spec2Model ----
(***************************************************************************)
(* Model of src/script.js: the ThreeApp class (construction of renderer,   *)
(* scene, camera, lights, shared geometry/material and the box population),*)
(* its resize listener and its render() loop driven by                     *)
(* requestAnimationFrame, together with the host events that call them.    *)
(*                                                                         *)
(* Numbers that are floating point in the source are exact rationals here, *)
(* written <<numerator, denominator>> with a positive denominator.  A      *)
(* quotient computed by the source (innerWidth / innerHeight) is the       *)
(* reduced fraction, so two quotients are equal exactly when the source's  *)
(* two divisions give the same number.  Floating-point rounding is not     *)
(* modelled.                                                               *)
(***************************************************************************)
EXTENDS Integers, Sequences, FiniteSets, TLC

\* ---------------------------------------------------------------- bounds
\* window.innerWidth ranges over 1..MaxWidth, window.innerHeight over 1..MaxHeight
MaxWidth == 2
MaxHeight == 1
\* Math.random() returns k / RandRes for k in 0..RandRes-1
RandRes == 3
\* the camera's orbit is divided into OrbitTicks auto-rotation increments
OrbitTicks == 4
\* calls of the public render() made by code other than the loop itself,
\* beyond the one call of the DOMContentLoaded handler
MaxExternalRender == 1

\* ------------------------------------------------------ program constants
boxCount == 100
transformScale == 6
fovy == 60
\* near = 0.1 and far = 10.0, in tenths
nearTenths == 1
farTenths == 100
autoRotateSpeed == 3
\* Math.PI as the rational PI_NUM / PI_DEN
PI_NUM == 355
PI_DEN == 113

VARIABLES
    stage,            \* "loading", "evaluated" (class defined), "running"
    innerWidth,       \* window.innerWidth
    innerHeight,      \* window.innerHeight
    CAMERA_PARAM,     \* ThreeApp.CAMERA_PARAM (static, set at class definition)
    RENDERER_PARAM,   \* ThreeApp.RENDERER_PARAM (static, set at class definition)
    renderer,         \* this.renderer
    scene,            \* this.scene: the sequence of added objects
    camera,           \* this.camera
    geometry,         \* this.geometry: handle of the geometry resource
    material,         \* this.material: handle of the material resource
    geometries,       \* number of geometry resources created so far
    materials,        \* number of material resources created so far
    controls,         \* this.controls
    resizeListeners,  \* number of 'resize' listeners registered on window
    rafQueue,         \* frame callbacks registered for the next frame
    rng,              \* state of the source behind Math.random()
    trace,            \* calls made by the render() runs of the last handler
    frameBuffer,      \* what the last renderer.render(scene, camera) drew
    lastHandler,      \* the handler that ran last
    resizeRuns,       \* consecutive resize-listener runs with equal dimensions
    externalCalls     \* calls of render() from outside the loop so far

vars == <<stage, innerWidth, innerHeight, CAMERA_PARAM, RENDERER_PARAM,
          renderer, scene, camera, geometry, material, geometries, materials,
          controls, resizeListeners, rafQueue, rng, trace, frameBuffer,
          lastHandler, resizeRuns, externalCalls>>

Widths == 1..MaxWidth

Heights == 1..MaxHeight

\* ------------------------------------------------------------ arithmetic
RECURSIVE GCD(_, _)
GCD(a, b) == IF b = 0 THEN a ELSE GCD(b, a % b)

\* the number w / h
Quotient(w, h) == <<w \div GCD(w, h), h \div GCD(w, h)>>

Whole(n) == <<n, 1>>

\* a <= b and a < b on rationals with positive denominators
LessEq(a, b) == a[1] * b[2] <= b[1] * a[2]
Less(a, b) == a[1] * b[2] < b[1] * a[2]

\* ------------------------------------------------------------ Math.random
\* the value returned by the draw made in generator state s: s / RandRes
RandomValue(s) == s
\* the generator state j draws after state s
RandomAt(s, j) == (s + j) % RandRes

\* (Math.random() * 2.0 - 1.0) * transformScale, for the draw k / RandRes
\* variant: the offset - 1.0 left out
PositionNoOffset(k) == <<(k * 2) * transformScale, RandRes>>
PositionComponent(k) == <<(k * 2 - RandRes) * transformScale, RandRes>>

\* Math.random() * Math.PI * 2, for the draw k / RandRes
RotationComponent(k) == <<k * PI_NUM * 2, RandRes * PI_DEN>>

TwoPi == <<2 * PI_NUM, PI_DEN>>

\* ---------------------------------------------------------------- objects
Vector3(x, y, z) == <<Whole(x), Whole(y), Whole(z)>>

Mesh(g, m) ==
    [type |-> "Mesh", geometry |-> g, material |-> m,
     position |-> Vector3(0, 0, 0), rotation |-> Vector3(0, 0, 0)]

DirectionalLight ==
    [type |-> "DirectionalLight", geometry |-> 0, material |-> 0,
     position |-> Vector3(30, 100, 50), rotation |-> Vector3(0, 0, 0)]

AmbientLight ==
    [type |-> "AmbientLight", geometry |-> 0, material |-> 0,
     position |-> Vector3(0, 0, 0), rotation |-> Vector3(0, 0, 0)]

SceneAdd(sc, obj) == Append(sc, obj)

\* the i-th box of the population loop, i in 1..boxCount; s is the generator
\* state when the loop starts, and every box makes six draws
\* variant: a geometry of its own for every box
PopulationBoxOwnGeometry(i, g, m, s) ==
    LET d(j) == RandomValue(RandomAt(s, 6 * (i - 1) + j))
    IN  [Mesh(g + i, m) EXCEPT
            !.position = <<PositionComponent(d(0)), PositionComponent(d(1)),
                           PositionComponent(d(2))>>,
            !.rotation = <<RotationComponent(d(3)), RotationComponent(d(4)),
                           RotationComponent(d(5))>>]
PopulationBox(i, g, m, s) ==
    LET d(j) == RandomValue(RandomAt(s, 6 * (i - 1) + j))
    IN  [Mesh(g, m) EXCEPT
            !.position = <<PositionComponent(d(0)), PositionComponent(d(1)),
                           PositionComponent(d(2))>>,
            !.rotation = <<RotationComponent(d(3)), RotationComponent(d(4)),
                           RotationComponent(d(5))>>]

\* this.boxArray after the loop
BoxArray(g, m, s) == [i \in 1..boxCount |-> PopulationBox(i, g, m, s)]

\* --------------------------------------------------------------- renderer
WebGLRenderer == [width |-> 0, height |-> 0, clearColor |-> -1]

SetClearColor(r, c) == [r EXCEPT !.clearColor = c]

SetSize(r, w, h) == [r EXCEPT !.width = w, !.height = h]

\* ----------------------------------------------------------------- camera
\* variant: the projection is not recomputed
UpdateProjectionMatrixStale(cam) == cam
UpdateProjectionMatrix(cam) ==
    [cam EXCEPT !.projectionMatrix =
        [fov |-> cam.fov, aspect |-> cam.aspect, near |-> cam.near, far |-> cam.far]]

\* new THREE.PerspectiveCamera(fov, aspect, near, far); the camera is then
\* placed at CAMERA_PARAM.position looking at the origin: azimuth 0
PerspectiveCamera(f, a, n, fa) ==
    [fov |-> f, aspect |-> a, near |-> n, far |-> fa, azimuth |-> 0,
     projectionMatrix |-> [fov |-> f, aspect |-> a, near |-> n, far |-> fa]]

NoCamera == PerspectiveCamera(0, <<0, 1>>, 0, 0)

NoFrame == [azimuth |-> 0, objects |-> 0]

\* -------------------------------------------------------------- the loop
\* The part of the program a run of render() reads and writes.
World == [rafQueue |-> rafQueue, camera |-> camera, controls |-> controls,
          renderer |-> renderer, scene |-> scene, trace |-> trace,
          frameBuffer |-> frameBuffer]

\* variant: the callback is not registered
RequestAnimationFrameDropped(w) == [w EXCEPT !.trace = Append(@, "raf")]
RequestAnimationFrame(w) ==
    [w EXCEPT !.rafQueue = @ + 1, !.trace = Append(@, "raf")]

\* controls.update(): with autoRotate the camera advances one increment of
\* autoRotateSpeed * 2 pi / 3600 around the target
ControlsUpdate(w) ==
    [w EXCEPT !.camera.azimuth =
                  IF w.controls.autoRotate THEN (@ + 1) % OrbitTicks ELSE @,
              !.trace = Append(@, "update")]

\* renderer.render(this.scene, this.camera)
RendererRender(w) ==
    [w EXCEPT !.frameBuffer =
                  [azimuth |-> w.camera.azimuth, objects |-> Len(w.scene)],
              !.trace = Append(@, "draw")]

\* ThreeApp.render()
\* variant: the draw before the update
RenderDrawFirst(w) == ControlsUpdate(RendererRender(RequestAnimationFrame(w)))
Render(w) == RendererRender(ControlsUpdate(RequestAnimationFrame(w)))

\* the host runs the k callbacks registered for this frame, one after another
RECURSIVE RunCallbacks(_, _)
RunCallbacks(k, w) == IF k = 0 THEN w ELSE RunCallbacks(k - 1, Render(w))

\* ------------------------------------------------------- resize listener
\* the listener of lines 170-177, run with window.innerWidth = w and
\* window.innerHeight = h on the pair v = [renderer, camera]
\* variant: the aspect taken from the renderer before it is resized
ResizeListenerAspectFirst(v, w, h) ==
    LET cam1 == [v.camera EXCEPT !.aspect = Quotient(v.renderer.width, v.renderer.height)]
    IN  [renderer |-> SetSize(v.renderer, w, h),
         camera |-> UpdateProjectionMatrix(cam1)]
\* variant: the listener also puts the camera back
ResizeListenerMovesCamera(v, w, h) ==
    LET r1 == SetSize(v.renderer, w, h)
        cam1 == [v.camera EXCEPT !.aspect = Quotient(w, h), !.azimuth = 0]
    IN  [renderer |-> r1, camera |-> UpdateProjectionMatrix(cam1)]
ResizeListener(v, w, h) ==
    LET r1 == SetSize(v.renderer, w, h)
        cam1 == [v.camera EXCEPT !.aspect = Quotient(w, h)]
    IN  [renderer |-> r1, camera |-> UpdateProjectionMatrix(cam1)]

\* ------------------------------------------------------------------ Init
Init ==
    /\ stage = "loading"
    /\ innerWidth \in Widths
    /\ innerHeight \in Heights
    /\ CAMERA_PARAM = [fovy |-> fovy, aspect |-> <<0, 1>>,
                       near |-> nearTenths, far |-> farTenths]
    /\ RENDERER_PARAM = [clearColor |-> 0, width |-> 0, height |-> 0]
    /\ renderer = WebGLRenderer
    /\ scene = <<>>
    /\ camera = NoCamera
    /\ geometry = 0
    /\ material = 0
    /\ geometries = 0
    /\ materials = 0
    /\ controls = [autoRotate |-> FALSE, autoRotateSpeed |-> 0]
    /\ resizeListeners = 0
    /\ rafQueue = 0
    /\ rng \in 0..(RandRes - 1)
    /\ trace = <<>>
    /\ frameBuffer = NoFrame
    /\ lastHandler = "none"
    /\ resizeRuns = 0
    /\ externalCalls = 0

\* --------------------------------------------------------------- actions
\* The module is evaluated: the class definition computes the static fields
\* from the window as it is now.
ModuleEvaluation ==
    /\ stage = "loading"
    /\ stage' = "evaluated"
    /\ CAMERA_PARAM' = [CAMERA_PARAM EXCEPT !.aspect = Quotient(innerWidth, innerHeight)]
    /\ RENDERER_PARAM' = [RENDERER_PARAM EXCEPT !.width = innerWidth, !.height = innerHeight]
    /\ lastHandler' = "module"
    /\ UNCHANGED <<innerWidth, innerHeight, renderer, scene, camera, geometry,
                   material, geometries, materials, controls, resizeListeners,
                   rafQueue, rng, trace, frameBuffer, resizeRuns, externalCalls>>

\* The window changes size to (w, h) while no listener is registered.
SurfaceResize(w, h) ==
    /\ stage # "running"
    /\ resizeListeners = 0
    /\ <<w, h>> # <<innerWidth, innerHeight>>
    /\ innerWidth' = w
    /\ innerHeight' = h
    /\ UNCHANGED <<stage, CAMERA_PARAM, RENDERER_PARAM, renderer, scene, camera,
                   geometry, material, geometries, materials, controls,
                   resizeListeners, rafQueue, rng, trace, frameBuffer,
                   lastHandler, resizeRuns, externalCalls>>

\* The DOMContentLoaded handler: new ThreeApp(wrapper), then app.render().
DOMContentLoaded ==
    /\ stage = "evaluated"
    /\ LET r == SetSize(SetClearColor(WebGLRenderer, RENDERER_PARAM.clearColor),
                        RENDERER_PARAM.width, RENDERER_PARAM.height)
           cam == PerspectiveCamera(CAMERA_PARAM.fovy, CAMERA_PARAM.aspect,
                                    CAMERA_PARAM.near, CAMERA_PARAM.far)
           sc2 == SceneAdd(SceneAdd(<<>>, DirectionalLight), AmbientLight)
           g == geometries + 1
           m == materials + 1
           sc3 == sc2 \o BoxArray(g, m, rng)
           sc4 == SceneAdd(sc3, Mesh(g, m))
           ctl == [autoRotate |-> TRUE, autoRotateSpeed |-> autoRotateSpeed]
           w0 == [rafQueue |-> rafQueue, camera |-> cam, controls |-> ctl,
                  renderer |-> r, scene |-> sc4, trace |-> <<>>,
                  frameBuffer |-> frameBuffer]
           w1 == Render(w0)
       IN  /\ renderer' = w1.renderer
           /\ scene' = w1.scene
           /\ camera' = w1.camera
           /\ controls' = w1.controls
           /\ rafQueue' = w1.rafQueue
           /\ trace' = w1.trace
           /\ frameBuffer' = w1.frameBuffer
           /\ geometry' = g
           /\ material' = m
           /\ geometries' = g
           /\ materials' = m
    /\ rng' = RandomAt(rng, 6 * boxCount)
    /\ resizeListeners' = resizeListeners + 1
    /\ stage' = "running"
    /\ lastHandler' = "dom"
    /\ UNCHANGED <<innerWidth, innerHeight, CAMERA_PARAM, RENDERER_PARAM,
                   resizeRuns, externalCalls>>

\* The window takes the size (w, h) and the 'resize' event is dispatched to
\* the registered listener.
ResizeEvent(w, h) ==
    /\ stage = "running"
    /\ resizeListeners = 1
    /\ innerWidth' = w
    /\ innerHeight' = h
    /\ LET v == ResizeListener([renderer |-> renderer, camera |-> camera], w, h)
       IN  /\ renderer' = v.renderer
           /\ camera' = v.camera
    /\ trace' = <<>>
    /\ lastHandler' = "resize"
    /\ resizeRuns' = IF lastHandler = "resize" /\ w = innerWidth /\ h = innerHeight
                     THEN (IF resizeRuns < 2 THEN resizeRuns + 1 ELSE 2)
                     ELSE 1
    /\ UNCHANGED <<stage, CAMERA_PARAM, RENDERER_PARAM, scene, geometry, material,
                   geometries, materials, controls, resizeListeners, rafQueue,
                   rng, frameBuffer, externalCalls>>

\* The host fires a frame: every callback registered for it runs render().
AnimationFrame ==
    /\ stage = "running"
    /\ rafQueue > 0
    /\ LET w1 == RunCallbacks(rafQueue, [World EXCEPT !.rafQueue = 0, !.trace = <<>>])
       IN  /\ rafQueue' = w1.rafQueue
           /\ camera' = w1.camera
           /\ trace' = w1.trace
           /\ frameBuffer' = w1.frameBuffer
           /\ renderer' = w1.renderer
           /\ scene' = w1.scene
           /\ controls' = w1.controls
    /\ lastHandler' = "frame"
    /\ resizeRuns' = 0
    /\ UNCHANGED <<stage, innerWidth, innerHeight, CAMERA_PARAM, RENDERER_PARAM,
                   geometry, material, geometries, materials, resizeListeners,
                   rng, externalCalls>>

\* Code other than the loop calls the public render() method once more.
ExternalRender ==
    /\ stage = "running"
    /\ externalCalls < MaxExternalRender
    /\ LET w1 == Render([World EXCEPT !.trace = <<>>])
       IN  /\ rafQueue' = w1.rafQueue
           /\ camera' = w1.camera
           /\ trace' = w1.trace
           /\ frameBuffer' = w1.frameBuffer
           /\ renderer' = w1.renderer
           /\ scene' = w1.scene
           /\ controls' = w1.controls
    /\ externalCalls' = externalCalls + 1
    /\ lastHandler' = "external"
    /\ resizeRuns' = 0
    /\ UNCHANGED <<stage, innerWidth, innerHeight, CAMERA_PARAM, RENDERER_PARAM,
                   geometry, material, geometries, materials, resizeListeners, rng>>

Next ==
    \/ ModuleEvaluation
    \/ \E w \in Widths, h \in Heights : SurfaceResize(w, h)
    \/ DOMContentLoaded
    \/ \E w \in Widths, h \in Heights : ResizeEvent(w, h)
    \/ AnimationFrame
    \/ ExternalRender

Spec == Init /\ [][Next]_vars

\* the host keeps firing frames
FairSpec == Init /\ [][Next]_vars /\ WF_vars(AnimationFrame)

\* ---------------------------------------------------------------- claims
TraceCount(call) == Cardinality({i \in 1..Len(trace) : trace[i] = call})

Meshes == {i \in 1..Len(scene) : scene[i].type = "Mesh"}

RenderRan == lastHandler \in {"dom", "frame", "external"}

\* C1: a second call of render() from outside the loop registers no further
\* frame callback: at most one callback is ever pending and a frame runs at
\* most one update+draw iteration.
C1_SingleCallbackPending ==
    /\ rafQueue <= 1
    /\ (lastHandler = "frame" => TraceCount("draw") <= 1)

\* C2: every iteration of render() calls controls.update() exactly once and
\* then renderer.render() exactly once, nothing else in between, so the frame
\* drawn shows the camera as that iteration's update left it.
C2_UpdateBeforeDraw ==
    RenderRan =>
        /\ Len(trace) % 3 = 0
        /\ Len(trace) >= 3
        /\ \A i \in 1..Len(trace) :
              trace[i] = (CASE i % 3 = 1 -> "raf" [] i % 3 = 2 -> "update" [] OTHER -> "draw")
        /\ frameBuffer.azimuth = camera.azimuth

C2_Witness ==
    /\ lastHandler = "frame"
    /\ Len(trace) = 6
    /\ frameBuffer.azimuth # 0

\* C3: once render() has been called a frame callback is pending whenever no
\* handler runs, each iteration registers it before its update and draw, and
\* if the host keeps firing frames new frames keep being drawn.
C3_LoopNeverStops ==
    /\ [](stage = "running" => rafQueue >= 1)
    /\ [](RenderRan => trace[1] = "raf")
    /\ (<>(stage = "running") => []<><<AnimationFrame>>_vars)

C3_Witness ==
    /\ lastHandler = "frame"
    /\ rafQueue >= 1
    /\ frameBuffer.azimuth = 0

\* C4: after construction the scene holds exactly 102 objects.
C4_SceneHas102 == stage = "running" => Len(scene) = 102

\* C5: right after construction the renderer has the size the window has at
\* that moment and the camera aspect is that width over that height.
C5_SizeAtConstruction ==
    lastHandler = "dom" =>
        /\ renderer.width = innerWidth
        /\ renderer.height = innerHeight
        /\ camera.aspect = Quotient(innerWidth, innerHeight)

\* C6: when the resize listener has run for a window of size (w, h) the
\* renderer size is (w, h), the camera aspect is w / h and the projection is
\* the one computed from that aspect.
C6_ResizeTracksWindow ==
    lastHandler = "resize" =>
        /\ renderer.width = innerWidth
        /\ renderer.height = innerHeight
        /\ camera.aspect[1] * innerHeight = camera.aspect[2] * innerWidth
        /\ camera.projectionMatrix.aspect = camera.aspect

C6_Witness ==
    /\ lastHandler = "resize"
    /\ renderer.width # RENDERER_PARAM.width
    /\ camera.aspect # CAMERA_PARAM.aspect
    /\ camera.projectionMatrix.aspect # CAMERA_PARAM.aspect

\* C7: a second run of the resize listener right after a first one, with the
\* window size unchanged, leaves renderer size, camera aspect and projection
\* as the first run left them.
C7_ResizeIdempotent ==
    [][resizeRuns' = 2 => (renderer' = renderer /\ camera' = camera)]_vars

C7_Witness ==
    /\ resizeRuns = 2
    /\ renderer.width # RENDERER_PARAM.width
    /\ camera.aspect # CAMERA_PARAM.aspect

\* C8: construction creates one geometry and one material, and every mesh in
\* the scene refers to that geometry and that material.
C8_SharedResources ==
    stage = "running" =>
        /\ geometries = 1
        /\ materials = 1
        /\ \A i \in Meshes : scene[i].geometry = geometry /\ scene[i].material = material

C8_Witness ==
    /\ stage = "running"
    /\ Cardinality(Meshes) = boxCount + 1

\* C9: every position component of every mesh lies in [-6, 6] and every
\* rotation component in [0, 2 pi), 2 pi excluded.
C9_TransformRanges ==
    \A i \in Meshes : \A c \in 1..3 :
        /\ LessEq(Whole(0 - transformScale), scene[i].position[c])
        /\ LessEq(scene[i].position[c], Whole(transformScale))
        /\ LessEq(Whole(0), scene[i].rotation[c])
        /\ Less(scene[i].rotation[c], TwoPi)

C9_Witness ==
    /\ stage = "running"
    /\ \E i \in Meshes, c \in 1..3 : scene[i].position[c] = PositionComponent(0)
    /\ \E i \in Meshes, c \in 1..3 : scene[i].position[c] = PositionComponent(RandRes - 1)
    /\ \E i \in Meshes, c \in 1..3 : scene[i].rotation[c] = RotationComponent(RandRes - 1)

\* C10: after construction no handler changes the scene, the shared geometry
\* and material or a mesh transform; the resize listener changes the renderer
\* size and the camera's aspect and projection only; the camera transform
\* changes only in a run of render(), by controls.update().
C10_FrameEffect ==
    [][stage = "running" =>
        /\ scene' = scene
        /\ geometry' = geometry /\ material' = material
        /\ geometries' = geometries /\ materials' = materials
        /\ (lastHandler' = "resize" =>
              /\ [camera' EXCEPT !.aspect = camera.aspect,
                                 !.projectionMatrix = camera.projectionMatrix] = camera
              /\ [renderer' EXCEPT !.width = renderer.width,
                                   !.height = renderer.height] = renderer
              /\ UNCHANGED <<controls, rafQueue, frameBuffer, rng>>)
        /\ (camera'.azimuth # camera.azimuth =>
              /\ lastHandler' \in {"frame", "external"}
              /\ TraceCount("update")' >= 1)
     ]_vars

C10_Witness ==
    /\ lastHandler = "resize"
    /\ camera.azimuth # 0
    /\ camera.aspect # CAMERA_PARAM.aspect
    /\ Len(scene) = boxCount + 3

====
